---- MODULE Spec2Model ----
(***************************************************************************)
(* Model of gnss-rtk's position solving Candidate (src/src/candidate.rs)   *)
(* and of the Modeling configuration and the Models delay table            *)
(* (src/src/model/mod.rs).                                                 *)
(*                                                                         *)
(* Units.  An Epoch / Duration is an integer number of ticks (hifitime     *)
(* counts nanoseconds; here one second is Sec ticks).  An f64 holding      *)
(* seconds is an integer number of sub-ticks (1 tick = Sub sub-ticks)      *)
(* that has at most Precision significant bits: every f64 operation        *)
(* rounds its exact result to the nearest such number, ties to even.       *)
(* A pseudo range is a number of range units, SPEED_OF_LIGHT range units   *)
(* are travelled per second.                                               *)
(***************************************************************************)
EXTENDS Integers, Sequences, FiniteSets, TLC

\* ------------------------------------------------------------------ bounds
Sec == 8            \* ticks per second
Sub == 2            \* sub-ticks per tick (f64 resolution below one tick)
Precision == 5      \* significant bits of an f64
MaxT == 35          \* latest sampling instant [ticks]
MaxRange == 2       \* largest pseudo range value
MaxObs == 2         \* longest pseudo range list given to Candidate::new
MaxCorr == 1        \* largest |clock_corr|, |tgd| [ticks]
MaxList == 2        \* longest (SV, elevation) list given to modelize

\* The speed of light, in the range unit of the model (a third of a light
\* second) per second.
SPEED_OF_LIGHT == 3

\* Option<T>: None is the empty sequence, Some(x) the sequence <<x>>.
None == <<>>
Some(x) == <<x>>

SVs == {"G01", "E05"}
Times == {0} \cup ((MaxT - 2)..MaxT)
Ranges == 0..MaxRange
\* The carrier of the i-th observation of a list: L1, L2, L5, ... [MHz]
Carrier(i) == 1600 - 25 * i
Corrs == {0 - MaxCorr, 0, MaxCorr}
\* The satellite and the SNR a candidate is built with.
Idents == {[sv |-> "G01", snr |-> None], [sv |-> "E05", snr |-> Some(30)]}
\* Elevation angles [degrees]
Elevations == {30, 90}

\* ------------------------------------------------------------- f64 model
Abs(x) == IF x < 0 THEN 0 - x ELSE x

RECURSIVE Pow2(_)
Pow2(n) == IF n = 0 THEN 1 ELSE 2 * Pow2(n - 1)

\* The spacing of the f64 numbers around x: the least power of two q with
\* |x| < 2^Precision * q.
RECURSIVE QuantumFrom(_, _)
QuantumFrom(x, q) == IF Abs(x) < Pow2(Precision) * q THEN q ELSE QuantumFrom(x, 2 * q)
Quantum(x) == QuantumFrom(x, 1)

\* n / d (d > 0) rounded to the nearest integer, ties to even.
RoundDiv(n, d) ==
    LET lo == n \div d
        r2 == 2 * (n - lo * d)
    IN  IF r2 < d THEN lo
        ELSE IF r2 > d THEN lo + 1
        ELSE IF lo % 2 = 0 THEN lo ELSE lo + 1

\* The f64 nearest to the exact value n / d sub-ticks.
FRoundRat(n, d) ==
    LET q == Quantum(n \div d) IN q * RoundDiv(n, d * q)

FRound(x) == FRoundRat(x, 1)

\* f64 - f64
FSub(a, b) == FRound(a - b)

\* Duration::to_seconds(): the duration as f64 seconds.
ToSeconds(d) == FRound(d * Sub)

\* f64 * Unit::Second: the f64 seconds as a Duration, truncated towards zero.
FromSeconds(x) == IF x >= 0 THEN x \div Sub ELSE 0 - ((0 - x) \div Sub)

\* The f64 literal 1.0 [s]
OneSecond == FRound(Sec * Sub)

\* ------------------------------------------------------------ Modeling
Modes == {"SPP", "LSQSPP", "PPP"}

default_sv_clock == TRUE
default_sv_tgd == TRUE
default_iono == TRUE
default_tropo == TRUE
default_earth_rot == FALSE
default_rel_clock_corr == FALSE

Modeling ==
    [sv_clock_bias : BOOLEAN, tropo_delay : BOOLEAN, iono_delay : BOOLEAN,
     sv_total_group_delay : BOOLEAN, earth_rotation : BOOLEAN,
     relativistic_clock_corr : BOOLEAN]

ModelingDefault ==
    [sv_clock_bias |-> default_sv_clock,
     iono_delay |-> default_iono,
     tropo_delay |-> default_tropo,
     sv_total_group_delay |-> default_sv_tgd,
     earth_rotation |-> default_earth_rot,
     relativistic_clock_corr |-> default_rel_clock_corr]

\* Modeling::from with the PPP preset the source leaves commented out.
ModelingFromPreset(mode) ==
    IF mode = "PPP"
    THEN [ModelingDefault EXCEPT !.earth_rotation = TRUE, !.relativistic_clock_corr = TRUE]
    ELSE ModelingDefault

\* Modeling::from
ModelingFrom(mode) ==
    LET s == ModelingDefault IN s

\* ------------------------------------------------------------ Candidate
RECURSIVE SeqsUpTo(_, _)
SeqsUpTo(S, n) ==
    IF n = 0 THEN {<<>>}
    ELSE LET shorter == SeqsUpTo(S, n - 1)
         IN  shorter \cup {Append(s, x) : s \in {q \in shorter : Len(q) = n - 1}, x \in S}

\* The pseudo range lists given to Candidate::new: any values, one carrier
\* per observation.
PseudoRangeLists ==
    {[i \in 1..Len(vs) |-> [value |-> vs[i], frequency |-> Carrier(i)]] :
        vs \in SeqsUpTo(Ranges, MaxObs)}

\* Candidate::new rejecting a single observation too (len() <= 1).
CandidateNewOffByOne(sv, t, clock_state, clock_corr, snr, pseudo_range) ==
    IF Len(pseudo_range) <= 1
    THEN [ok |-> FALSE, err |-> "NeedsAtLeastOnePseudoRange"]
    ELSE [ok |-> TRUE,
          value |-> [sv |-> sv, t |-> t, clock_state |-> clock_state,
                     clock_corr |-> clock_corr, snr |-> snr,
                     pseudo_range |-> pseudo_range,
                     tgd |-> None, state |-> None, elevation |-> None,
                     azimuth |-> None]]

\* Candidate::new
CandidateNew(sv, t, clock_state, clock_corr, snr, pseudo_range) ==
    IF Len(pseudo_range) = 0
    THEN [ok |-> FALSE, err |-> "NeedsAtLeastOnePseudoRange"]
    ELSE [ok |-> TRUE,
          value |-> [sv |-> sv, t |-> t, clock_state |-> clock_state,
                     clock_corr |-> clock_corr, snr |-> snr,
                     pseudo_range |-> pseudo_range,
                     tgd |-> None, state |-> None, elevation |-> None,
                     azimuth |-> None]]

\* reduce(|_, k| k)
KeepLast(k, x) == x

\* The closure |k, _| k
KeepFirst(k, x) == k

\* Iterator::reduce(|k, _| k): None on an empty iterator, else the fold of
\* the closure from the first item over the rest.
RECURSIVE FoldFrom(_, _, _)
FoldFrom(acc, s, i) ==
    IF i > Len(s) THEN acc ELSE FoldFrom(KeepFirst(acc, s[i]), s, i + 1)

Reduce(s) == IF Len(s) = 0 THEN None ELSE Some(FoldFrom(s[1], s, 2))

\* Option::unwrap
Unwrap(o) == IF o = None THEN [panic |-> TRUE] ELSE [panic |-> FALSE, value |-> o[1]]

\* Candidate::pseudo_range
PseudoRangeOf(c) ==
    Unwrap(Reduce([i \in 1..Len(c.pseudo_range) |-> c.pseudo_range[i].value]))

\* The transmission epoch with the group delay added instead of removed.
ResolveTxWrongSign(c, cfg) ==
    LET e0 == FromSeconds(FSub(ToSeconds(c.t),
                    FRoundRat(PseudoRangeOf(c).value * Sec * Sub, SPEED_OF_LIGHT)))
        e1 == IF cfg.modeling.sv_clock_bias THEN e0 - c.clock_corr ELSE e0
    IN  IF cfg.modeling.sv_total_group_delay /\ c.tgd # None THEN e1 + c.tgd[1] ELSE e1

\* The transmission epoch before the physical verification.
ResolveTx(c, cfg) ==
    LET t == c.t
        seconds_ts == ToSeconds(t)
        light == FRoundRat(PseudoRangeOf(c).value * Sec * Sub, SPEED_OF_LIGHT)
        dt_tx == FSub(seconds_ts, light)
        e0 == FromSeconds(dt_tx)
        e1 == IF cfg.modeling.sv_clock_bias THEN e0 - c.clock_corr ELSE e0
        e2 == IF cfg.modeling.sv_total_group_delay /\ c.tgd # None THEN e1 - c.tgd[1] ELSE e1
    IN  e2

\* transmission_time without its second assertion.
TransmissionTimeNoUpperCheck(c, cfg) ==
    LET e_tx == ResolveTx(c, cfg)
        dt == ToSeconds(c.t - e_tx)
    IN  IF ~(dt > 0) THEN [panic |-> TRUE, msg |-> "resolved t_tx is physically impossible"]
        ELSE [panic |-> FALSE, value |-> e_tx]

\* Candidate::transmission_time
TransmissionTime(c, cfg) ==
    LET e_tx == ResolveTx(c, cfg)
        dt == ToSeconds(c.t - e_tx)
    IN  IF ~(dt > 0) THEN [panic |-> TRUE, msg |-> "resolved t_tx is physically impossible"]
        ELSE IF ~(dt < OneSecond) THEN [panic |-> TRUE, msg |-> "|t -t_tx| < 1sec is physically impossible"]
        ELSE [panic |-> FALSE, value |-> e_tx]

\* ------------------------------------------------------------- Models
\* tropo::unb3_delay_components(t, lat_ddeg, alt_above_sea_m): the zenith
\* (dry, wet) delays of the built-in empirical model.
Unb3DelayComponents(t, lat_ddeg, alt_above_sea_m) ==
    <<24 - alt_above_sea_m, 1 + lat_ddeg \div 45>>

\* tropo::tropo_delay(elev, zwd, zdd): the slant delay, non increasing in
\* the elevation and equal to zwd + zdd at 90 degrees.
TropoDelay(elev, zwd, zdd) == ((zwd + zdd) * 90) \div elev

\* An insert that keeps the entry a key already has.
InsertIfAbsent(table, k, v) ==
    [x \in (DOMAIN table) \cup {k} |-> IF x \in DOMAIN table THEN table[x] ELSE v]

\* HashMap::insert
Insert(table, k, v) == [x \in (DOMAIN table) \cup {k} |-> IF x = k THEN v ELSE table[x]]

\* A clear that removes nothing.
ClearNothing(table) == table

\* HashMap::clear
Clear(table) == <<>>

\* The loop body computing the tropo delay whatever cfg says.
ModelizeOneAlways(table, t, item, lat_ddeg, alt_above_sea_m, cfg, tropo_components) ==
    LET components ==
            IF tropo_components # None THEN tropo_components[1]
            ELSE LET u == Unb3DelayComponents(t, lat_ddeg, alt_above_sea_m)
                 IN  [zwd |-> u[2], zdd |-> u[1]]
    IN  Insert(table, item[1], TropoDelay(item[2], components.zwd, components.zdd))

\* The loop body that never stores the tropo delay.
ModelizeOneZero(table, t, item, lat_ddeg, alt_above_sea_m, cfg, tropo_components) ==
    Insert(table, item[1], 0)

\* The body of the loop of modelize for one (sv, elev) item.
ModelizeOne(table, t, item, lat_ddeg, alt_above_sea_m, cfg, tropo_components) ==
    LET sv == item[1]
        elev == item[2]
        zero == Insert(table, sv, 0)
    IN  IF cfg.modeling.tropo_delay
        THEN LET components ==
                    IF tropo_components # None THEN tropo_components[1]
                    ELSE LET u == Unb3DelayComponents(t, lat_ddeg, alt_above_sea_m)
                         IN  [zwd |-> u[2], zdd |-> u[1]]
                 tropo == TropoDelay(elev, components.zwd, components.zdd)
             IN  Insert(zero, sv, tropo)
        ELSE zero

RECURSIVE ModelizeFrom(_, _, _, _, _, _, _, _)
ModelizeFrom(table, t, sv, i, lat_ddeg, alt_above_sea_m, cfg, tropo_components) ==
    IF i > Len(sv) THEN table
    ELSE ModelizeFrom(
            ModelizeOne(table, t, sv[i], lat_ddeg, alt_above_sea_m, cfg, tropo_components),
            t, sv, i + 1, lat_ddeg, alt_above_sea_m, cfg, tropo_components)

\* Models::modelize
Modelize(table, t, sv, lat_ddeg, alt_above_sea_m, cfg, tropo_components) ==
    ModelizeFrom(Clear(table), t, sv, 1, lat_ddeg, alt_above_sea_m, cfg, tropo_components)

\* The values of the entries of the table whose key is sv, in iteration
\* order (a HashMap holds at most one entry per key).
FilterMap(table, sv) == IF sv \in DOMAIN table THEN <<table[sv]>> ELSE <<>>

\* sum_up with unwrap_or(0.0).
SumUpOrZero(table, sv) ==
    LET o == Reduce(FilterMap(table, sv))
    IN  IF o = None THEN [panic |-> FALSE, value |-> 0] ELSE [panic |-> FALSE, value |-> o[1]]

\* Models::sum_up
SumUp(table, sv) == Unwrap(Reduce(FilterMap(table, sv)))

\* ---------------------------------------------------------------- state
\* cand:     the Candidate under construction / in use (None before new)
\* models:   the Models delay table
\* modelled: the arguments of the latest modelize call and the satellites
\*           the table held when it was made (None before the first call)
\* ret:      the latest call and what it returned
VARIABLES cand, models, modelled, ret

vars == <<cand, models, modelled, ret>>

\* The configurations handed to transmission_time: every combination of
\* the two flags it reads, the others at their defaults or all flipped.
ConfigsCandidate ==
    {[modeling |-> m] : m \in {x \in Modeling :
        /\ x.tropo_delay = x.iono_delay
        /\ x.earth_rotation = x.relativistic_clock_corr
        /\ x.iono_delay = ~x.earth_rotation}}

\* The configurations handed to modelize.
ConfigsModels ==
    {[modeling |-> m] : m \in {x \in Modeling :
        /\ x.sv_clock_bias = x.sv_total_group_delay
        /\ x.iono_delay = x.sv_clock_bias
        /\ x.earth_rotation = x.relativistic_clock_corr
        /\ x.iono_delay = ~x.earth_rotation
        /\ x.iono_delay = x.tropo_delay}}

Overrides == {None, Some([zwd |-> 1, zdd |-> 2])}
\* The epoch and the receiver position handed to modelize.
Receivers == {[t |-> 0, lat_ddeg |-> 0, alt_above_sea_m |-> 0],
              [t |-> 1, lat_ddeg |-> 45, alt_above_sea_m |-> 4]}

Init ==
    /\ cand = None
    /\ models = <<>>
    /\ modelled = None
    /\ ret = [op |-> "none"]

\* The model follows one Candidate: new builds it once (a failed new builds
\* nothing and may be tried again).
New(id, t, clock_corr, pseudo_range) ==
    LET r == CandidateNew(id.sv, t, <<0, 0, 0>>, clock_corr, id.snr, pseudo_range)
    IN  /\ cand = None
        /\ cand' = IF r.ok THEN Some(r.value) ELSE cand
        /\ ret' = [op |-> "new", given |-> pseudo_range, result |-> r]
        /\ UNCHANGED <<models, modelled>>

SetTgd(tgd) ==
    /\ cand # None
    /\ cand' = Some([cand[1] EXCEPT !.tgd = Some(tgd)])
    /\ ret' = [op |-> "set_tgd"]
    /\ UNCHANGED <<models, modelled>>

CallPseudoRange ==
    /\ cand # None
    /\ ret' = [op |-> "pseudo_range", result |-> PseudoRangeOf(cand[1])]
    /\ UNCHANGED <<cand, models, modelled>>

CallTransmissionTime(cfg) ==
    /\ cand # None
    /\ ret' = [op |-> "transmission_time", cfg |-> cfg,
               result |-> TransmissionTime(cand[1], cfg)]
    /\ UNCHANGED <<cand, models, modelled>>

CallModelingDefault ==
    /\ ret' = [op |-> "default", result |-> ModelingDefault]
    /\ UNCHANGED <<cand, models, modelled>>

CallModelingFrom(mode) ==
    /\ ret' = [op |-> "from", mode |-> mode, result |-> ModelingFrom(mode)]
    /\ UNCHANGED <<cand, models, modelled>>

CallModelize(t, sv, lat_ddeg, alt_above_sea_m, cfg, tropo_components) ==
    /\ models' = Modelize(models, t, sv, lat_ddeg, alt_above_sea_m, cfg, tropo_components)
    /\ modelled' = Some([t |-> t, sv |-> sv, lat_ddeg |-> lat_ddeg,
                         alt_above_sea_m |-> alt_above_sea_m, cfg |-> cfg,
                         tropo_components |-> tropo_components,
                         before |-> DOMAIN models])
    /\ ret' = [op |-> "modelize"]
    /\ UNCHANGED cand

CallSumUp(sv) ==
    /\ ret' = [op |-> "sum_up", sv |-> sv, result |-> SumUp(models, sv)]
    /\ UNCHANGED <<cand, models, modelled>>

NextCandidate ==
    \/ \E id \in Idents, t \in Times, cc \in Corrs, pr \in PseudoRangeLists :
          New(id, t, cc, pr)
    \/ \E tgd \in Corrs : SetTgd(tgd)
    \/ CallPseudoRange
    \/ \E cfg \in ConfigsCandidate : CallTransmissionTime(cfg)
    \/ CallModelingDefault
    \/ \E mode \in Modes : CallModelingFrom(mode)

NextModels ==
    \/ \E sv \in SeqsUpTo(SVs \X Elevations, MaxList), rx \in Receivers,
          cfg \in ConfigsModels, tc \in Overrides :
          CallModelize(rx.t, sv, rx.lat_ddeg, rx.alt_above_sea_m, cfg, tc)
    \/ \E sv \in SVs : CallSumUp(sv)

\* The Candidate and the Modeling configuration.
SpecCandidate == Init /\ [][NextCandidate]_vars

\* The Models delay table.
SpecModels == Init /\ [][NextModels]_vars

\* ------------------------------------------------- claims on Candidate
\* C1: Candidate::new fails with NeedsAtLeastOnePseudoRange if and only if
\* the supplied pseudo range list is empty; otherwise it succeeds and the
\* Candidate holds exactly the supplied observations, in the supplied order
\* (and no Candidate exists after a failure).
C1_NewFailsIffEmpty ==
    ret.op = "new" =>
        /\ (~ret.result.ok) <=> (Len(ret.given) = 0)
        /\ (~ret.result.ok) =>
              /\ ret.result.err = "NeedsAtLeastOnePseudoRange"
              /\ cand = None
        /\ ret.result.ok =>
              /\ cand = Some(ret.result.value)
              /\ cand[1].pseudo_range = ret.given

\* new has just succeeded with two observations of different values.
C1_Witness ==
    /\ ret.op = "new"
    /\ ret.result.ok
    /\ Len(ret.given) = MaxObs
    /\ ret.given[1].value # ret.given[2].value
    /\ cand[1].clock_corr # 0

\* C2: pseudo_range() of a constructed Candidate never panics and returns
\* the value of the first observation the Candidate holds, whatever the
\* further observations are (so repeated calls agree).
C2_PseudoRangeIsFirst ==
    ret.op = "pseudo_range" =>
        /\ ~ret.result.panic
        /\ ret.result.value = cand[1].pseudo_range[1].value

\* pseudo_range() was called on a Candidate whose last observation differs
\* from its first.
C2_Witness ==
    /\ ret.op = "pseudo_range"
    /\ Len(cand[1].pseudo_range) > 1
    /\ cand[1].pseudo_range[Len(cand[1].pseudo_range)].value # cand[1].pseudo_range[1].value

\* The gap [ticks] between the sampling instant and the transmission epoch
\* resolved with all the corrections cfg enables.
Gap(c, cfg) == c.t - ResolveTx(c, cfg)

\* The clock correction / group delay term transmission_time removes under cfg.
ClockTerm(c, cfg) == IF cfg.modeling.sv_clock_bias THEN c.clock_corr ELSE 0
GroupTerm(c, cfg) ==
    IF cfg.modeling.sv_total_group_delay /\ c.tgd # None THEN c.tgd[1] ELSE 0

NoCorrection ==
    [modeling |-> [ModelingDefault EXCEPT !.sv_clock_bias = FALSE,
                                          !.sv_total_group_delay = FALSE]]

BaseError(c) ==
    Abs(SPEED_OF_LIGHT * Sub * ResolveTx(c, NoCorrection)
        - (SPEED_OF_LIGHT * Sub * c.t - c.pseudo_range[1].value * Sec * Sub))

\* The f64 tolerance [sub-ticks]: the spacing of the f64 numbers at t, plus
\* the half sub-tick of the division, plus the tick the truncation drops.
Tolerance(c) == Quantum(c.t * Sub) + 1 + Sub

C4_ImplausibleGapPanics ==
    ret.op = "transmission_time" =>
        /\ (Gap(cand[1], ret.cfg) <= 0 \/ Gap(cand[1], ret.cfg) >= Sec) => ret.result.panic
        /\ (~ret.result.panic) =>
              /\ ret.result.value = ResolveTx(cand[1], ret.cfg)
              /\ 0 < cand[1].t - ret.result.value
              /\ cand[1].t - ret.result.value < Sec

\* transmission_time panicked because of an enabled correction: without
\* the corrections the gap is plausible.
C4_Witness ==
    /\ ret.op = "transmission_time"
    /\ ret.result.panic
    /\ Gap(cand[1], NoCorrection) > 0
    /\ Gap(cand[1], NoCorrection) < Sec
    /\ Gap(cand[1], ret.cfg) >= Sec

\* C9: Modeling::default() enables sv_clock_bias, tropo_delay, iono_delay
\* and sv_total_group_delay and disables earth_rotation and
\* relativistic_clock_corr, and Modeling::from(mode) is that default for
\* every mode.
C9_DefaultModeling ==
    ret.op \in {"default", "from"} =>
        ret.result = [sv_clock_bias |-> TRUE, tropo_delay |-> TRUE,
                      iono_delay |-> TRUE, sv_total_group_delay |-> TRUE,
                      earth_rotation |-> FALSE, relativistic_clock_corr |-> FALSE]

\* Modeling::from(Mode::PPP) has returned.
C9_Witness == ret.op = "from" /\ ret.mode = "PPP"

\* --------------------------------------------------- claims on Models
\* The satellites of a (SV, elevation) list.
SvSet(sv) == {sv[i][1] : i \in 1..Len(sv)}

\* The last position of satellite k in a (SV, elevation) list holding it.
LastIndex(sv, k) == CHOOSE i \in 1..Len(sv) :
    sv[i][1] = k /\ \A j \in (i + 1)..Len(sv) : sv[j][1] # k

\* The delay a modelize call owes satellite k: 0 with tropo_delay disabled,
\* else the slant delay at the elevation of k's last occurrence, from the
\* override components if given and from the empirical model if not.
OwedDelay(call, k) ==
    LET elev == call.sv[LastIndex(call.sv, k)][2]
        u == Unb3DelayComponents(call.t, call.lat_ddeg, call.alt_above_sea_m)
        zwd == IF call.tropo_components # None THEN call.tropo_components[1].zwd ELSE u[2]
        zdd == IF call.tropo_components # None THEN call.tropo_components[1].zdd ELSE u[1]
    IN  IF call.cfg.modeling.tropo_delay THEN TropoDelay(elev, zwd, zdd) ELSE 0

\* C5: the satellites in the table are exactly those of the input of the
\* latest modelize call (none before the first call), tropo_delay enabled
\* or not.
C5_TableIsLatestInput ==
    DOMAIN models = IF modelled = None THEN {} ELSE SvSet(modelled[1].sv)

\* modelize was called with a table holding a satellite its input lacks.
C5_Witness ==
    /\ modelled # None
    /\ modelled[1].before \ SvSet(modelled[1].sv) # {}
    /\ modelled[1].sv # <<>>

\* C6: after modelize with tropo_delay disabled every satellite of the
\* input has an entry equal to 0, whatever its elevation, the epoch, the
\* receiver position and the override components.
C6_DisabledIsZero ==
    (modelled # None /\ ~modelled[1].cfg.modeling.tropo_delay) =>
        \A k \in SvSet(modelled[1].sv) : k \in DOMAIN models /\ models[k] = 0

\* modelize ran with tropo_delay disabled, override components and a
\* satellite below the zenith.
C6_Witness ==
    /\ modelled # None
    /\ ~modelled[1].cfg.modeling.tropo_delay
    /\ modelled[1].tropo_components # None
    /\ \E i \in 1..Len(modelled[1].sv) : modelled[1].sv[i][2] < 90

\* C7: sum_up(sv) for a satellite of the latest modelize input returns the
\* delay that call owed sv, and the table still holds it.
C7_SumUpReturnsWritten ==
    (ret.op = "sum_up" /\ modelled # None /\ ret.sv \in SvSet(modelled[1].sv)) =>
        /\ ~ret.result.panic
        /\ ret.result.value = OwedDelay(modelled[1], ret.sv)
        /\ models[ret.sv] = ret.result.value

\* sum_up returned a non zero delay.
C7_Witness ==
    /\ ret.op = "sum_up"
    /\ ~ret.result.panic
    /\ ret.result.value > 0
    /\ Cardinality(DOMAIN models) > 1

\* C8: sum_up(sv) returns a value only for a satellite of the input of the
\* latest modelize call, and panics for every other satellite.
C8_SumUpOnlyLatest ==
    ret.op = "sum_up" =>
        ret.result.panic <=> (modelled = None \/ ret.sv \notin SvSet(modelled[1].sv))

\* sum_up panicked for a satellite the table held before the latest
\* modelize call.
C8_Witness ==
    /\ ret.op = "sum_up"
    /\ ret.result.panic
    /\ modelled # None
    /\ ret.sv \in modelled[1].before

\* C10: the table has one entry per distinct satellite of the input list,
\* holding the delay computed for the satellite's last occurrence.
C10_LastOccurrenceWins ==
    modelled # None =>
        /\ Cardinality(DOMAIN models) = Cardinality(SvSet(modelled[1].sv))
        /\ \A k \in SvSet(modelled[1].sv) : models[k] = OwedDelay(modelled[1], k)

\* modelize got the same satellite twice, at elevations whose delays differ.
C10_Witness ==
    /\ modelled # None
    /\ \E i, j \in 1..Len(modelled[1].sv) :
          /\ i < j
          /\ modelled[1].sv[i][1] = modelled[1].sv[j][1]
          /\ modelled[1].sv[i][2] # modelled[1].sv[j][2]
          /\ models[modelled[1].sv[j][1]] = OwedDelay(modelled[1], modelled[1].sv[j][1])
          /\ models[modelled[1].sv[j][1]] #
                TropoDelay(modelled[1].sv[i][2], 1, 2)
          /\ modelled[1].tropo_components # None
          /\ modelled[1].cfg.modeling.tropo_delay

====
